---- MODULE Spec2Model ----
(***************************************************************************)
(* Model of Dashboard.py: a three-level console menu (mostrar_menu ->      *)
(* mostrar_sub_menu -> mostrar_scripts) over a directory tree that an      *)
(* external agent may change while the program is blocked on input().      *)
(*                                                                         *)
(* A text (a line of input, the characters of a name) is a sequence of     *)
(* one-character strings, so that strip, isdigit, int, lower, suffix and   *)
(* the sort key are computed character by character.  "^2" stands for      *)
(* U+00B2 SUPERSCRIPT TWO, for which str.isdigit() is True and int()       *)
(* raises ValueError.                                                      *)
(***************************************************************************)
EXTENDS Integers, Sequences, FiniteSets, TLC

(* Bound: how many times the external agent changes the directory tree. *)
MaxCambios == 1

None == "None"

----------------------------------------------------------------------------
(* Characters *)

DigitosDecimales == {"0", "1", "2", "3", "4", "5", "6", "7", "8", "9"}

(* ord(c): the code point of a character. *)
ord(c) ==
    CASE c = " " -> 32 [] c = "." -> 46
      [] c = "0" -> 48 [] c = "1" -> 49 [] c = "2" -> 50 [] c = "3" -> 51
      [] c = "4" -> 52 [] c = "5" -> 53 [] c = "6" -> 54 [] c = "7" -> 55
      [] c = "8" -> 56 [] c = "9" -> 57
      [] c = "A" -> 65 [] c = "B" -> 66 [] c = "P" -> 80 [] c = "U" -> 85
      [] c = "Y" -> 89
      [] c = "a" -> 97 [] c = "b" -> 98 [] c = "c" -> 99 [] c = "d" -> 100
      [] c = "e" -> 101 [] c = "f" -> 102 [] c = "g" -> 103 [] c = "h" -> 104
      [] c = "i" -> 105 [] c = "j" -> 106 [] c = "k" -> 107 [] c = "m" -> 109
      [] c = "n" -> 110 [] c = "p" -> 112 [] c = "u" -> 117 [] c = "x" -> 120
      [] c = "y" -> 121
      [] c = "^2" -> 178

(* str.lower() on one character. *)
lower_char(c) ==
    CASE c = "A" -> "a" [] c = "B" -> "b" [] c = "P" -> "p" [] c = "U" -> "u"
      [] c = "Y" -> "y" [] OTHER -> c

(* str.lower(): every character lowered. *)
lower(s) == [i \in 1..Len(s) |-> lower_char(s[i])]

(* Python's str comparison: lexicographic by code point; a proper prefix is smaller. *)
RECURSIVE str_le(_, _)
str_le(a, b) ==
    IF a = <<>> THEN TRUE
    ELSE IF b = <<>> THEN FALSE
    ELSE IF Head(a) = Head(b) THEN str_le(Tail(a), Tail(b))
    ELSE ord(Head(a)) < ord(Head(b))

(* str.strip(): leading and trailing whitespace removed. *)
RECURSIVE lstrip(_)
lstrip(s) == IF s # <<>> /\ Head(s) = " " THEN lstrip(Tail(s)) ELSE s

RECURSIVE rstrip(_)
rstrip(s) ==
    IF s # <<>> /\ s[Len(s)] = " " THEN rstrip(SubSeq(s, 1, Len(s) - 1)) ELSE s

strip(s) == rstrip(lstrip(s))

(* str.isdigit(): non-empty and every character has the Unicode digit
   property, which the superscript two has. *)
isdigit(s) ==
    /\ s # <<>>
    /\ \A i \in 1..Len(s) : s[i] \in DigitosDecimales \cup {"^2"}

(* int(s) on a text for which isdigit holds: the base-10 value, or ValueError
   when a character is no decimal digit. *)
RECURSIVE valor_decimal(_)
valor_decimal(s) ==
    IF s = <<>> THEN 0
    ELSE 10 * valor_decimal(SubSeq(s, 1, Len(s) - 1)) + (ord(s[Len(s)]) - 48)

int(s) ==
    IF \A i \in 1..Len(s) : s[i] \in DigitosDecimales
    THEN [error |-> None, valor |-> valor_decimal(s)]
    ELSE [error |-> "ValueError", valor |-> 0]

----------------------------------------------------------------------------
(* Names and paths.  A path is the sequence of its segments under BASE_DIR. *)

BASE_DIR == <<>>

Unidad1 == "Unidad 1"
Unidad2 == "Unidad 2"

(* The entries the external agent may create: two unit entries, two
   subfolders and a file in the first unit, and in subfolder B nine script
   names, a ".PY" file, a ".pyc" file and a directory named like a script. *)
NombresPy == {"a.py", "B.py", "c.py", "d.py", "e.py", "f.py", "g.py", "h.py", "i.py"}

RutasUnidad == {<<Unidad1>>, <<Unidad2>>}
RutasSub == {<<Unidad1, "a">>, <<Unidad1, "B">>, <<Unidad1, "n.py">>}
RutasHoja == {<<Unidad1, "B", n>> : n \in NombresPy \cup {"j.PY", "k.pyc", "m.py"}}
Rutas == RutasUnidad \cup RutasSub \cup RutasHoja

(* The characters of a name. *)
letras(n) ==
    CASE n = "Unidad 1" -> <<"U", "n", "i", "d", "a", "d", " ", "1">>
      [] n = "Unidad 2" -> <<"U", "n", "i", "d", "a", "d", " ", "2">>
      [] n = "a" -> <<"a">>
      [] n = "B" -> <<"B">>
      [] n = "n.py" -> <<"n", ".", "p", "y">>
      [] n = "a.py" -> <<"a", ".", "p", "y">>
      [] n = "B.py" -> <<"B", ".", "p", "y">>
      [] n = "c.py" -> <<"c", ".", "p", "y">>
      [] n = "d.py" -> <<"d", ".", "p", "y">>
      [] n = "e.py" -> <<"e", ".", "p", "y">>
      [] n = "f.py" -> <<"f", ".", "p", "y">>
      [] n = "g.py" -> <<"g", ".", "p", "y">>
      [] n = "h.py" -> <<"h", ".", "p", "y">>
      [] n = "i.py" -> <<"i", ".", "p", "y">>
      [] n = "j.PY" -> <<"j", ".", "P", "Y">>
      [] n = "k.pyc" -> <<"k", ".", "p", "y", "c">>
      [] n = "m.py" -> <<"m", ".", "p", "y">>

(* What an entry is: absent, a directory, a readable UTF-8 text file, or a
   file whose bytes are not valid UTF-8. *)
Tipos == {"none", "dir", "file", "binario"}

TiposPosibles(p) ==
    IF Len(p) = 1 THEN {"dir", "file"}
    ELSE IF Len(p) = 2 THEN (IF p[2] = "n.py" THEN {"file"} ELSE {"dir"})
    ELSE IF p[3] = "m.py" THEN {"dir"}
    ELSE {"file", "binario"}

padre(p) == SubSeq(p, 1, Len(p) - 1)

tipo(f, p) == IF p = BASE_DIR THEN "dir" ELSE IF p \in Rutas THEN f[p] ELSE "none"

(* pathlib: Path.exists, Path.is_dir, Path.is_file, Path.name, Path.suffix. *)
exists(f, p) == tipo(f, p) # "none"
is_dir(f, p) == tipo(f, p) = "dir"
is_file(f, p) == tipo(f, p) \in {"file", "binario"}
name(p) == letras(p[Len(p)])

(* str.rfind("."): the last index of a dot, 0 when there is none (1-based). *)
RECURSIVE rfind_punto(_)
rfind_punto(s) ==
    IF s = <<>> THEN 0
    ELSE IF s[Len(s)] = "." THEN Len(s)
    ELSE rfind_punto(SubSeq(s, 1, Len(s) - 1))

(* PurePath.suffix: the text from the last dot on, unless the dot is the
   first or the last character of the name. *)
suffix(p) ==
    LET n == name(p)
        i == rfind_punto(n)
    IN  IF 1 < i /\ i < Len(n) THEN SubSeq(n, i, Len(n)) ELSE <<>>

(* Path.iterdir: the entries of a directory; raises when p is none. *)
iterdir(f, p) ==
    IF ~exists(f, p) THEN [error |-> "FileNotFoundError", valor |-> {}]
    ELSE IF ~is_dir(f, p) THEN [error |-> "NotADirectoryError", valor |-> {}]
    ELSE [error |-> None,
          valor |-> {q \in Rutas : Len(q) = Len(p) + 1 /\ padre(q) = p /\ exists(f, q)}]

(* Variant: the names are compared as they are, upper case before lower case. *)
clave_sin_lower(p) == name(p)

(* The sort key of listar_carpetas and listar_scripts_py: x.name.lower(). *)
clave(p) == lower(name(p))

(* key(a) <= key(b), for every two entries (computed once). *)
NoDespues == {par \in Rutas \X Rutas : str_le(clave(par[1]), clave(par[2]))}

(* sorted(S, key=lambda x: x.name.lower()).  The names of the model differ
   in their lowered form, so the result does not depend on the order in
   which iterdir yields the entries. *)
RECURSIVE sorted(_)
sorted(S) ==
    IF S = {} THEN <<>>
    ELSE LET m == CHOOSE x \in S : \A y \in S : <<x, y>> \in NoDespues
         IN  <<m>> \o sorted(S \ {m})

SufijoPy == <<".", "p", "y">>

listar_carpetas(f, ruta) ==
    LET d == iterdir(f, ruta)
    IN  IF d.error # None THEN [error |-> d.error, valor |-> <<>>]
        ELSE [error |-> None, valor |-> sorted({p \in d.valor : is_dir(f, p)})]

listar_scripts_py(f, ruta) ==
    LET d == iterdir(f, ruta)
    IN  IF d.error # None THEN [error |-> d.error, valor |-> <<>>]
        ELSE [error |-> None,
              valor |-> sorted({p \in d.valor :
                                   is_file(f, p) /\ suffix(p) = SufijoPy})]

----------------------------------------------------------------------------
(* Printed lines.  A line is its fixed text and the path it names, if any. *)

Msg(t) == [texto |-> t, ruta |-> <<>>]
MsgRuta(t, r) == [texto |-> t, ruta |-> r]

MENU_PRINCIPAL == Msg("Menu Principal - Dashboard")
SUBMENU == Msg("Submenu")
MENU_SCRIPTS == Msg("Scripts")
SALIENDO == Msg("Saliendo del programa.")
NO_VALIDA == Msg("Opcion no valida. Por favor, intenta de nuevo.")
NO_NUMERO == Msg("Opcion no valida. Debes ingresar un numero.")
NO_HAY_SCRIPTS == Msg("No hay scripts .py en esta carpeta.")
NO_ES_ARCHIVO == Msg("El archivo no existe o no es un archivo valido.")
ERROR_LEER == Msg("Ocurrio un error al leer el archivo")
NO_SE_EJECUTO == Msg("No se ejecuto el script.")
REGRESANDO == Msg("Opcion no valida. Regresando al menu de scripts.")
ERROR_EJECUTAR == Msg("Ocurrio un error al ejecutar el codigo")

----------------------------------------------------------------------------
(* Content Reader *)

(* leer_codigo: the text of the file, or None with the line it printed. *)
leer_codigo(f, ruta_script) ==
    IF ~is_file(f, ruta_script)
    THEN [codigo |-> None, salida |-> <<NO_ES_ARCHIVO>>]
    ELSE IF tipo(f, ruta_script) = "binario"
    THEN [codigo |-> None, salida |-> <<ERROR_LEER>>]
    ELSE [codigo |-> "texto", salida |-> <<>>]

mostrar_codigo(f, ruta_script) ==
    LET r == leer_codigo(f, ruta_script)
    IN  IF r.codigo = None
        THEN [ok |-> FALSE, salida |-> r.salida]
        ELSE [ok |-> TRUE, salida |-> <<MsgRuta("Codigo de", ruta_script)>>]

----------------------------------------------------------------------------
(* Process Launcher *)

terminales == <<"xterm", "gnome-terminal", "konsole", "mate-terminal", "xfce4-terminal">>

Programas == {terminales[i] : i \in 1..Len(terminales)} \cup {"cmd", "python"}

(* A host: os.name, and for every program what starting it does: "ok", or
   the exception that subprocess raises. *)
Host(os, falta, falla) ==
    [os_name |-> os,
     inicio |-> [p \in Programas |->
                    IF p \in falta THEN "FileNotFoundError"
                    ELSE IF p \in falla THEN "PermissionError" ELSE "ok"]]

Terminales == {terminales[i] : i \in 1..Len(terminales)}

Entornos ==
    { Host("posix", {}, {}),
      Host("posix", {"xterm"}, {}),
      Host("posix", {"xterm", "gnome-terminal", "konsole", "mate-terminal"}, {}),
      Host("posix", Terminales, {}),
      Host("posix", {"xterm"}, {"gnome-terminal"}),
      Host("posix", Terminales, {"python"}),
      Host("nt", {}, {}),
      Host("nt", {"cmd"}, {}) }

(* No host has been consulted. *)
SinHost == [os_name |-> None, inicio |-> [p \in Programas |-> None]]

SinLanzar == [script |-> <<>>, intentos |-> <<>>, hijo |-> None, bloqueante |-> FALSE,
              salida |-> <<>>, entorno |-> SinHost]

(* Variant: any exception of a terminal makes the loop try the next one. *)
RECURSIVE probar_terminales_tolerante(_, _, _, _)
probar_terminales_tolerante(env, ruta_script, i, intentos) ==
    IF i > Len(terminales)
    THEN LET r == env.inicio["python"]
         IN  [script |-> ruta_script, intentos |-> Append(intentos, "python"),
              hijo |-> IF r = "ok" THEN "python" ELSE None,
              bloqueante |-> r = "ok",
              salida |-> IF r = "ok" THEN <<>> ELSE <<ERROR_EJECUTAR>>,
              entorno |-> env]
    ELSE LET r == env.inicio[terminales[i]]
             hechos == Append(intentos, terminales[i])
         IN  IF r = "ok"
             THEN [script |-> ruta_script, intentos |-> hechos, hijo |-> terminales[i],
                   bloqueante |-> FALSE, salida |-> <<>>, entorno |-> env]
             ELSE probar_terminales_tolerante(env, ruta_script, i + 1, hechos)

(* The for loop of ejecutar_codigo from terminal i on, and the
   subprocess.run that follows it. *)
RECURSIVE probar_terminales(_, _, _, _)
probar_terminales(env, ruta_script, i, intentos) ==
    IF i > Len(terminales)
    THEN LET r == env.inicio["python"]
         IN  [script |-> ruta_script, intentos |-> Append(intentos, "python"),
              hijo |-> IF r = "ok" THEN "python" ELSE None,
              bloqueante |-> r = "ok",
              salida |-> IF r = "ok" THEN <<>> ELSE <<ERROR_EJECUTAR>>,
              entorno |-> env]
    ELSE LET r == env.inicio[terminales[i]]
             hechos == Append(intentos, terminales[i])
         IN  IF r = "ok"
             THEN [script |-> ruta_script, intentos |-> hechos, hijo |-> terminales[i],
                   bloqueante |-> FALSE, salida |-> <<>>, entorno |-> env]
             ELSE IF r = "FileNotFoundError"
             THEN probar_terminales(env, ruta_script, i + 1, hechos)
             ELSE [script |-> ruta_script, intentos |-> hechos, hijo |-> None,
                   bloqueante |-> FALSE, salida |-> <<ERROR_EJECUTAR>>, entorno |-> env]

ejecutar_codigo(env, ruta_script) ==
    IF env.os_name = "nt"
    THEN LET r == env.inicio["cmd"]
         IN  [script |-> ruta_script, intentos |-> <<"cmd">>,
              hijo |-> IF r = "ok" THEN "cmd" ELSE None, bloqueante |-> FALSE,
              salida |-> IF r = "ok" THEN <<>> ELSE <<ERROR_EJECUTAR>>,
              entorno |-> env]
    ELSE probar_terminales(env, ruta_script, 1, <<>>)

----------------------------------------------------------------------------
(* Navigation Controller *)

VARIABLES
    fs,                \* the directory tree: Rutas -> Tipos
    cambios,           \* how many times the external agent changed fs
    pc,                \* the input() call the program is blocked at, or "fin"/"error"
    ruta_unidad,       \* mostrar_menu: ruta_unidad
    sub_carpetas,      \* mostrar_sub_menu: sub_carpetas
    ruta_sub_carpeta,  \* mostrar_scripts: ruta_sub_carpeta
    scripts,           \* mostrar_scripts: scripts
    ruta_script,       \* mostrar_scripts: ruta_script
    opcion,            \* what the last pedir_opcion returned
    salida,            \* the lines printed since the previous input was read
    lanzamiento,       \* what ejecutar_codigo did, if the last input ran it
    excepcion          \* the exception that ended the program, if any

vars == <<fs, cambios, pc, ruta_unidad, sub_carpetas, ruta_sub_carpeta, scripts,
          ruta_script, opcion, salida, lanzamiento, excepcion>>

(* The keys and values of the dict unidades. *)
unidades == [k \in {<<"1">>, <<"2">>} |->
                IF k = <<"1">> THEN BASE_DIR \o <<Unidad1>> ELSE BASE_DIR \o <<Unidad2>>]

(* The controller's part of the state, as the handlers read and return it. *)
Control ==
    [pc |-> pc, ruta_unidad |-> ruta_unidad, sub_carpetas |-> sub_carpetas,
     ruta_sub_carpeta |-> ruta_sub_carpeta, scripts |-> scripts,
     ruta_script |-> ruta_script, salida |-> salida, lanzamiento |-> lanzamiento,
     excepcion |-> excepcion]

(* An exception nobody catches: the traceback ends the program. *)
propagar(c, e, previo) ==
    [c EXCEPT !.pc = "error", !.excepcion = e, !.salida = previo]

(* mostrar_menu, the top of its loop: the menu is printed from the dict. *)
bucle_menu(c, previo) ==
    [c EXCEPT !.pc = "menu", !.sub_carpetas = <<>>, !.ruta_sub_carpeta = <<>>,
              !.scripts = <<>>, !.ruta_script = <<>>,
              !.salida = previo \o <<MENU_PRINCIPAL>>]

(* mostrar_sub_menu, the top of its loop: the menu is printed from sub_carpetas. *)
bucle_sub_menu(c, previo) ==
    [c EXCEPT !.pc = "sub_menu", !.ruta_sub_carpeta = <<>>, !.scripts = <<>>,
              !.ruta_script = <<>>, !.salida = previo \o <<SUBMENU>>]

(* Variant: an empty listing prints the notice and returns to the unit menu. *)
bucle_scripts_auto_retorno(c, f, previo) ==
    LET l == listar_scripts_py(f, c.ruta_sub_carpeta)
    IN  IF l.error # None THEN propagar(c, l.error, previo)
        ELSE IF l.valor = <<>>
        THEN bucle_sub_menu(c, previo \o <<MENU_SCRIPTS, NO_HAY_SCRIPTS>>)
        ELSE [c EXCEPT !.pc = "scripts", !.scripts = l.valor,
                       !.salida = previo \o <<MENU_SCRIPTS>>]

(* Variant: the listing taken at the first render is kept for the later ones. *)
bucle_scripts_en_cache(c, f, previo) ==
    LET l == IF c.scripts # <<>> THEN [error |-> None, valor |-> c.scripts]
             ELSE listar_scripts_py(f, c.ruta_sub_carpeta)
    IN  IF l.error # None THEN propagar(c, l.error, previo)
        ELSE IF l.valor = <<>>
        THEN [c EXCEPT !.pc = "scripts_vacio", !.scripts = <<>>,
                       !.salida = previo \o <<MENU_SCRIPTS, NO_HAY_SCRIPTS>>]
        ELSE [c EXCEPT !.pc = "scripts", !.scripts = l.valor,
                       !.salida = previo \o <<MENU_SCRIPTS>>]

(* mostrar_scripts, the top of its loop: list, print, block on the prompt. *)
bucle_scripts(c, f, previo) ==
    LET l == listar_scripts_py(f, c.ruta_sub_carpeta)
    IN  IF l.error # None THEN propagar(c, l.error, previo)
        ELSE IF l.valor = <<>>
        THEN [c EXCEPT !.pc = "scripts_vacio", !.scripts = <<>>,
                       !.salida = previo \o <<MENU_SCRIPTS, NO_HAY_SCRIPTS>>]
        ELSE [c EXCEPT !.pc = "scripts", !.scripts = l.valor,
                       !.salida = previo \o <<MENU_SCRIPTS>>]

mostrar_scripts(c, f, ruta) ==
    bucle_scripts([c EXCEPT !.ruta_sub_carpeta = ruta], f, <<>>)

(* Variant: no check for an empty list of subfolders. *)
mostrar_sub_menu_sin_aviso(c, f, ruta) ==
    LET l == listar_carpetas(f, ruta)
    IN  IF l.error # None THEN propagar(c, l.error, <<>>)
        ELSE bucle_sub_menu([c EXCEPT !.sub_carpetas = l.valor], <<>>)

(* mostrar_sub_menu up to its first prompt. *)
mostrar_sub_menu(c, f, ruta) ==
    LET l == listar_carpetas(f, ruta)
    IN  IF l.error # None THEN propagar(c, l.error, <<>>)
        ELSE IF l.valor = <<>>
        THEN bucle_menu(c, <<MsgRuta("No hay subcarpetas dentro de", ruta)>>)
        ELSE bucle_sub_menu([c EXCEPT !.sub_carpetas = l.valor], <<>>)

(* mostrar_menu: one line read at the main prompt. *)
entrada_menu(c, f, eleccion) ==
    IF eleccion = <<"0">>
    THEN [c EXCEPT !.pc = "fin", !.salida = <<SALIENDO>>]
    ELSE IF eleccion \notin DOMAIN unidades
    THEN bucle_menu(c, <<NO_VALIDA>>)
    ELSE LET ruta == unidades[eleccion]
             d == [c EXCEPT !.ruta_unidad = ruta]
         IN  IF ~exists(f, ruta)
             THEN bucle_menu(d, <<MsgRuta("No existe la carpeta", ruta)>>)
             ELSE mostrar_sub_menu(d, f, ruta)

(* mostrar_sub_menu: one line read at its prompt. *)
entrada_sub_menu(c, f, eleccion) ==
    IF eleccion = <<"0">> THEN bucle_menu(c, <<>>)
    ELSE IF ~isdigit(eleccion) THEN bucle_sub_menu(c, <<NO_NUMERO>>)
    ELSE LET n == int(eleccion)
             idx == n.valor - 1
         IN  IF n.error # None THEN propagar(c, n.error, <<>>)
             ELSE IF ~(0 <= idx /\ idx < Len(c.sub_carpetas))
             THEN bucle_sub_menu(c, <<NO_VALIDA>>)
             ELSE mostrar_scripts(c, f, c.sub_carpetas[idx + 1])

(* Variant: "0" at the script menu returns to the main menu. *)
entrada_scripts_sale_dos(c, f, eleccion) ==
    IF eleccion = <<"0">> THEN bucle_menu(c, <<>>)
    ELSE IF eleccion = <<"9">> THEN bucle_sub_menu(c, <<>>)
    ELSE IF ~isdigit(eleccion) THEN bucle_scripts(c, f, <<NO_NUMERO>>)
    ELSE LET n == int(eleccion)
             idx == n.valor - 1
         IN  IF n.error # None THEN propagar(c, n.error, <<>>)
             ELSE IF ~(0 <= idx /\ idx < Len(c.scripts))
             THEN bucle_scripts(c, f, <<NO_VALIDA>>)
             ELSE LET ruta == c.scripts[idx + 1]
                      m == mostrar_codigo(f, ruta)
                  IN  [c EXCEPT !.ruta_script = ruta, !.salida = m.salida,
                                !.pc = IF m.ok THEN "ejecutar" ELSE "enter"]

(* Variant: the index is looked up in a listing taken when the line is read. *)
entrada_scripts_relista(c, f, eleccion) ==
    IF eleccion = <<"0">> THEN bucle_sub_menu(c, <<>>)
    ELSE IF eleccion = <<"9">> THEN bucle_sub_menu(c, <<>>)
    ELSE IF ~isdigit(eleccion) THEN bucle_scripts(c, f, <<NO_NUMERO>>)
    ELSE LET n == int(eleccion)
             idx == n.valor - 1
             l == listar_scripts_py(f, c.ruta_sub_carpeta)
         IN  IF n.error # None THEN propagar(c, n.error, <<>>)
             ELSE IF l.error # None THEN propagar(c, l.error, <<>>)
             ELSE IF ~(0 <= idx /\ idx < Len(l.valor))
             THEN bucle_scripts(c, f, <<NO_VALIDA>>)
             ELSE LET ruta == l.valor[idx + 1]
                      m == mostrar_codigo(f, ruta)
                  IN  [c EXCEPT !.ruta_script = ruta, !.salida = m.salida,
                                !.pc = IF m.ok THEN "ejecutar" ELSE "enter"]

(* mostrar_scripts: one line read at the prompt of a non-empty listing. *)
entrada_scripts(c, f, eleccion) ==
    IF eleccion = <<"0">> THEN bucle_sub_menu(c, <<>>)
    ELSE IF eleccion = <<"9">> THEN bucle_sub_menu(c, <<>>)
    ELSE IF ~isdigit(eleccion) THEN bucle_scripts(c, f, <<NO_NUMERO>>)
    ELSE LET n == int(eleccion)
             idx == n.valor - 1
         IN  IF n.error # None THEN propagar(c, n.error, <<>>)
             ELSE IF ~(0 <= idx /\ idx < Len(c.scripts))
             THEN bucle_scripts(c, f, <<NO_VALIDA>>)
             ELSE LET ruta == c.scripts[idx + 1]
                      m == mostrar_codigo(f, ruta)
                  IN  [c EXCEPT !.ruta_script = ruta, !.salida = m.salida,
                                !.pc = IF m.ok THEN "ejecutar" ELSE "enter"]

(* mostrar_scripts: one line read at the prompt of an empty listing. *)
entrada_scripts_vacio(c, f, eleccion) ==
    IF eleccion = <<"0">> THEN bucle_sub_menu(c, <<>>)
    ELSE bucle_scripts(c, f, <<>>)

(* Variant: every answer but "0" runs the script. *)
entrada_ejecutar_salvo_cero(c, env, ejecutar) ==
    IF ejecutar # <<"0">>
    THEN LET r == ejecutar_codigo(env, c.ruta_script)
         IN  [c EXCEPT !.pc = "enter", !.lanzamiento = r, !.salida = r.salida]
    ELSE [c EXCEPT !.pc = "enter", !.salida = <<NO_SE_EJECUTO>>]

(* mostrar_scripts: the answer to the execute prompt. *)
entrada_ejecutar(c, env, ejecutar) ==
    IF ejecutar = <<"1">>
    THEN LET r == ejecutar_codigo(env, c.ruta_script)
         IN  [c EXCEPT !.pc = "enter", !.lanzamiento = r, !.salida = r.salida]
    ELSE IF ejecutar = <<"0">>
    THEN [c EXCEPT !.pc = "enter", !.salida = <<NO_SE_EJECUTO>>]
    ELSE [c EXCEPT !.pc = "enter", !.salida = <<REGRESANDO>>]

(* Variant: a second acknowledgement is asked for after a launch. *)
entrada_enter_doble(c, f) ==
    IF c.salida = <<>> /\ c.ruta_script # <<>> /\ c.pc = "enter"
    THEN [c EXCEPT !.salida = <<REGRESANDO>>]
    ELSE bucle_scripts(c, f, <<>>)

(* mostrar_scripts: the line read by input("Presiona Enter ..."). *)
entrada_enter(c, f) == bucle_scripts(c, f, <<>>)

----------------------------------------------------------------------------
(* The directory trees the program may be started on. *)

Arbol(presentes, binarios, archivos) ==
    [p \in Rutas |->
        IF p \in binarios THEN "binario"
        ELSE IF p \in archivos THEN "file"
        ELSE IF p \in presentes
        THEN (IF "dir" \in TiposPosibles(p) THEN "dir" ELSE "file")
        ELSE "none"]

EnB(n) == <<Unidad1, "B", n>>

(* Nothing under the root. *)
ArbolVacio == Arbol({}, {}, {})

(* Both units, both subfolders, every entry of subfolder B. *)
ArbolCompleto == Arbol(Rutas, {}, {})

(* "Unidad 2" is a regular file; subfolder B holds a script, a script
   that is not valid UTF-8, and the ".PY" and ".pyc" files. *)
ArbolChico ==
    Arbol({<<Unidad1>>, <<Unidad1, "a">>, <<Unidad1, "B">>,
           EnB("a.py"), EnB("j.PY"), EnB("k.pyc")},
          {EnB("c.py")}, {<<Unidad2>>})

ArbolesIniciales == {ArbolVacio, ArbolCompleto, ArbolChico}

(* The lines the user may type. *)
Lineas == {<<"0">>, <<"1">>, <<"2">>, <<"3">>, <<"9">>, <<>>, <<"x">>, <<"^2">>,
           <<" ", "1", " ">>}

(* pedir_opcion: input(mensaje).strip() *)
pedir_opcion(linea) == strip(linea)

----------------------------------------------------------------------------
(* The state machine *)

Init ==
    /\ fs \in ArbolesIniciales
    /\ cambios = 0
    /\ pc = "menu"
    /\ ruta_unidad = <<>>
    /\ sub_carpetas = <<>>
    /\ ruta_sub_carpeta = <<>>
    /\ scripts = <<>>
    /\ ruta_script = <<>>
    /\ opcion = <<>>
    /\ salida = <<MENU_PRINCIPAL>>
    /\ lanzamiento = SinLanzar
    /\ excepcion = None

(* The handler's result becomes the controller's state. *)
Pasar(resultado) ==
    \E r \in {resultado} :
    /\ pc' = r.pc
    /\ ruta_unidad' = r.ruta_unidad
    /\ sub_carpetas' = r.sub_carpetas
    /\ ruta_sub_carpeta' = r.ruta_sub_carpeta
    /\ scripts' = r.scripts
    /\ ruta_script' = r.ruta_script
    /\ salida' = r.salida
    /\ lanzamiento' = r.lanzamiento
    /\ excepcion' = r.excepcion
    /\ UNCHANGED <<fs, cambios>>

(* The state a handler starts from: nothing launched yet by this input. *)
AlLeer == [Control EXCEPT !.lanzamiento = SinLanzar]

EntradaMenu ==
    /\ pc = "menu"
    /\ \E linea \in Lineas :
        /\ opcion' = pedir_opcion(linea)
        /\ Pasar(entrada_menu(AlLeer, fs, opcion'))

EntradaSubMenu ==
    /\ pc = "sub_menu"
    /\ \E linea \in Lineas :
        /\ opcion' = pedir_opcion(linea)
        /\ Pasar(entrada_sub_menu(AlLeer, fs, opcion'))

EntradaScripts ==
    /\ pc = "scripts"
    /\ \E linea \in Lineas :
        /\ opcion' = pedir_opcion(linea)
        /\ Pasar(entrada_scripts(AlLeer, fs, opcion'))

EntradaScriptsVacio ==
    /\ pc = "scripts_vacio"
    /\ \E linea \in Lineas :
        /\ opcion' = pedir_opcion(linea)
        /\ Pasar(entrada_scripts_vacio(AlLeer, fs, opcion'))

(* The host decides what ejecutar_codigo does; it is consulted only when
   the launcher runs. *)
EntradaEjecutar ==
    /\ pc = "ejecutar"
    /\ \E linea \in Lineas :
        /\ opcion' = pedir_opcion(linea)
        /\ \E env \in (IF opcion' = <<"1">> THEN Entornos ELSE {Host("posix", {}, {})}) :
              Pasar(entrada_ejecutar(AlLeer, env, opcion'))

(* input(): the line is read and dropped. *)
EntradaEnter ==
    /\ pc = "enter"
    /\ Pasar(entrada_enter(AlLeer, fs))
    /\ \E linea \in Lineas : opcion' = opcion

(* The external agent creates, replaces or removes one entry while the
   program waits for input; removing a directory removes what is in it. *)
EsPrefijo(p, q) == Len(p) < Len(q) /\ SubSeq(q, 1, Len(p)) = p

CambioFS ==
    /\ pc \notin {"fin", "error"}
    /\ cambios < MaxCambios
    /\ \E p \in Rutas, t \in Tipos :
        /\ t \in TiposPosibles(p) \cup {"none"}
        /\ t # fs[p]
        /\ t # "none" => is_dir(fs, padre(p))
        /\ fs' = [q \in Rutas |->
                    IF q = p THEN t
                    ELSE IF EsPrefijo(p, q) /\ t # "dir" THEN "none"
                    ELSE fs[q]]
    /\ cambios' = cambios + 1
    /\ UNCHANGED <<pc, ruta_unidad, sub_carpetas, ruta_sub_carpeta, scripts,
                   ruta_script, opcion, salida, lanzamiento, excepcion>>

Next ==
    \/ EntradaMenu
    \/ EntradaSubMenu
    \/ EntradaScripts
    \/ EntradaScriptsVacio
    \/ EntradaEjecutar
    \/ EntradaEnter
    \/ CambioFS

Spec == Init /\ [][Next]_vars

----------------------------------------------------------------------------
(* Vocabulary of the properties *)

(* A step of the program (one line read and handled), not of the external agent. *)
PasoControl == cambios' = cambios

Elementos(seq) == {seq[i] : i \in 1..Len(seq)}

(* The decimal literal of n, 1 <= n <= 9. *)
Literal(n) == <<CHOOSE d \in DigitosDecimales : ord(d) = 48 + n>>

(* The trimmed line is the literal of an index into a listing of this length. *)
EsIndice(linea, cuenta) == \E n \in 1..cuenta : n <= 9 /\ linea = Literal(n)

(* The immediate children of d that are regular files named *.py. *)
ArchivosPy(f, d) ==
    {p \in Rutas : /\ Len(p) = Len(d) + 1
                   /\ SubSeq(p, 1, Len(d)) = d
                   /\ f[p] \in {"file", "binario"}
                   /\ Len(name(p)) > 3
                   /\ SubSeq(name(p), Len(name(p)) - 2, Len(name(p))) = <<".", "p", "y">>}

(* The immediate children of d that are directories. *)
Subdirectorios(f, d) ==
    {p \in Rutas : Len(p) = Len(d) + 1 /\ SubSeq(p, 1, Len(d)) = d /\ f[p] = "dir"}

EnMenuScripts == {"scripts", "scripts_vacio"}

----------------------------------------------------------------------------
(* C1: the launcher runs only in the step that reads the answer to the
   execute prompt, only when that answer is "1", only for a script chosen
   from the listing whose content has just been displayed, and it is that
   script that is launched; any other answer launches nothing. *)
C1_LanzaSoloConUno ==
    [][PasoControl =>
        /\ lanzamiento' # SinLanzar =>
              /\ pc = "ejecutar"
              /\ opcion' = <<"1">>
              /\ ruta_script \in Elementos(scripts)
              /\ salida = <<MsgRuta("Codigo de", ruta_script)>>
              /\ lanzamiento'.script = ruta_script
              /\ ruta_script' = ruta_script
        /\ (pc = "ejecutar" /\ opcion' # <<"1">>) => lanzamiento' = SinLanzar]_vars

C1_Lanzado ==
    /\ pc = "enter"
    /\ opcion = <<"1">>
    /\ lanzamiento.hijo # None
    /\ lanzamiento.script = ruta_script

(* C2: when the chosen script cannot be read (it is no regular file, or its
   bytes are not UTF-8), the program goes to the acknowledgement without the
   execute prompt and without a launch, and after the acknowledgement it is
   in the script menu of the same subfolder. *)
C2_FalloDeLectura ==
    [][PasoControl =>
        /\ (/\ pc = "scripts"
            /\ EsIndice(opcion', Len(scripts))
            /\ opcion' # <<"9">>
            /\ \E n \in 1..Len(scripts) : opcion' = Literal(n) /\ fs[scripts[n]] # "file")
           => (pc' = "enter" /\ lanzamiento' = SinLanzar)
        /\ (pc = "enter" /\ salida \in {<<NO_ES_ARCHIVO>>, <<ERROR_LEER>>})
           => /\ pc' \in EnMenuScripts
              /\ ruta_sub_carpeta' = ruta_sub_carpeta
              /\ lanzamiento' = SinLanzar]_vars

(* C3: the program ends only by "0" at the main menu; no exception ends it. *)
C3_SoloTerminaPorSalir ==
    pc \in {"fin", "error"} => (pc = "fin" /\ opcion = <<"0">> /\ excepcion = None)

(* C4: at the main menu, the unit menu and the script menu, a trimmed line
   that is neither "0", nor the reserved "9" of the script menu, nor the
   literal of an index into the listing is answered with an invalid-option
   line, and the program stays in the same menu with the same unit and
   subfolder; it never ends the program. *)
InvalidaEn(menu, linea) ==
    /\ linea # <<"0">>
    /\ CASE menu = "menu" -> ~EsIndice(linea, Cardinality(DOMAIN unidades))
         [] menu = "sub_menu" -> ~EsIndice(linea, Len(sub_carpetas))
         [] menu = "scripts" -> linea # <<"9">> /\ ~EsIndice(linea, Len(scripts))

C4_EntradaInvalida ==
    [][(PasoControl /\ pc \in {"menu", "sub_menu", "scripts"} /\ InvalidaEn(pc, opcion')) =>
          /\ pc' = pc
          /\ salida' # <<>>
          /\ salida'[1] \in {NO_VALIDA, NO_NUMERO}
          /\ ruta_sub_carpeta' = ruta_sub_carpeta
          /\ sub_carpetas' = sub_carpetas]_vars

(* C5: at the unit menu the literal of n, 1 <= n <= count, enters the script
   menu of the n-th listed subfolder; at the script menu it passes the n-th
   listed script to the Content Reader. *)
C5_IndiceSelecciona ==
    [][PasoControl =>
        /\ pc = "sub_menu" =>
              \A n \in 1..Len(sub_carpetas) :
                  opcion' = Literal(n) =>
                      (pc' \in EnMenuScripts /\ ruta_sub_carpeta' = sub_carpetas[n])
        /\ pc = "scripts" =>
              \A n \in 1..Len(scripts) :
                  opcion' = Literal(n) =>
                      (pc' \in {"ejecutar", "enter"} /\ ruta_script' = scripts[n])]_vars

(* C6: started on a root without unit directories, the program does not
   come back to the prompt of the main menu: it ends. *)
SinUnidades(f) == \A u \in RutasUnidad : f[u] # "dir"

C6_SinUnidadesTermina ==
    [][(PasoControl /\ cambios = 0 /\ SinUnidades(fs) /\ pc = "menu") => pc' = "fin"]_vars

(* C7: whenever the main menu is printed it offers exactly the unit
   directories under the root, and whenever the unit menu is printed it
   offers exactly the subfolders of the unit, as they are at that moment. *)
C7_MenusFrescos ==
    [][PasoControl =>
        /\ pc' = "menu" =>
              {unidades[k] : k \in DOMAIN unidades} = Subdirectorios(fs', BASE_DIR)
        /\ pc' = "sub_menu" =>
              Elementos(sub_carpetas') = Subdirectorios(fs', ruta_unidad')]_vars

(* C8: whenever the script menu is printed, the scripts shown, which are the
   ones an index is resolved against, are exactly the regular files named
   *.py that the subfolder holds at that moment. *)
C8_ScriptsFrescos ==
    [][(PasoControl /\ pc' \in EnMenuScripts) =>
          /\ Elementos(scripts') = ArchivosPy(fs', ruta_sub_carpeta')
          /\ Len(scripts') = Cardinality(ArchivosPy(fs', ruta_sub_carpeta'))
          /\ (pc' = "scripts_vacio") = (scripts' = <<>>)]_vars

(* A script menu printed again after the script last chosen was removed. *)
C8_ReflejaBorrado ==
    /\ pc = "scripts"
    /\ ruta_script # <<>>
    /\ ruta_script \notin Elementos(scripts)
    /\ cambios > 0

(* C9: listing a directory that is not there gives an empty listing; no
   FileNotFoundError ends the program. *)
C9_ListarAusente ==
    excepcion # "FileNotFoundError"

(* C10: choosing a unit that is a directory without subdirectories prints
   the notice and leaves the program at the main prompt in the same step,
   so no line is read by the unit menu. *)
C10_UnidadSinSubcarpetas ==
    [][(/\ PasoControl
        /\ pc = "menu"
        /\ opcion' \in DOMAIN unidades
        /\ fs[unidades[opcion']] = "dir"
        /\ Subdirectorios(fs, unidades[opcion']) = {}) =>
          /\ pc' = "menu"
          /\ salida' = <<MsgRuta("No hay subcarpetas dentro de", unidades[opcion']),
                         MENU_PRINCIPAL>>
          /\ sub_carpetas' = <<>>]_vars

C10_Avisado ==
    /\ pc = "menu"
    /\ opcion \in DOMAIN unidades
    /\ salida = <<MsgRuta("No hay subcarpetas dentro de", ruta_unidad), MENU_PRINCIPAL>>
    /\ fs[ruta_unidad] = "dir"

(* C11 (as stated): a script menu without scripts returns to the unit menu
   by itself; the program never waits for input at an empty script menu. *)
C11_AutoRetorno == pc # "scripts_vacio"

(* C11 (amended): choosing a subfolder without scripts prints the
   empty-state notice and leaves the program waiting at the prompt of the
   empty script menu; from there it goes back to the unit menu only on "0". *)
C11_MenuVacioEspera ==
    [][PasoControl =>
        /\ (/\ pc = "sub_menu"
            /\ \E n \in 1..Len(sub_carpetas) :
                  /\ opcion' = Literal(n)
                  /\ fs[sub_carpetas[n]] = "dir"
                  /\ ArchivosPy(fs, sub_carpetas[n]) = {})
           => (pc' = "scripts_vacio" /\ salida' = <<MENU_SCRIPTS, NO_HAY_SCRIPTS>>)
        /\ (pc = "scripts_vacio" /\ pc' \notin EnMenuScripts \cup {"error"})
           => (opcion' = <<"0">> /\ pc' = "sub_menu")]_vars

(* The empty script menu shown again after an input that is not "0". *)
C11_SigueVacio ==
    /\ pc = "scripts_vacio"
    /\ opcion = <<"x">>
    /\ salida = <<MENU_SCRIPTS, NO_HAY_SCRIPTS>>

(* C12: at the prompt of an empty script menu, "0" goes back to the unit
   menu it was entered from, any other line leaves the program in the script
   menu of the same subfolder, and no line ends the program, reads a script
   or launches one. *)
C12_MenuVacio ==
    [][(PasoControl /\ pc = "scripts_vacio") =>
          /\ opcion' = <<"0">> =>
                (pc' = "sub_menu" /\ ruta_unidad' = ruta_unidad /\ sub_carpetas' = sub_carpetas)
          /\ opcion' # <<"0">> =>
                (pc' \in EnMenuScripts /\ ruta_sub_carpeta' = ruta_sub_carpeta)
          /\ pc' \notin {"error", "fin", "ejecutar", "enter"}
          /\ ruta_script' = <<>>
          /\ lanzamiento' = SinLanzar]_vars

(* C13: a launch that starts no child prints the warning and leaves the
   program at the acknowledgement; after the acknowledgement the program is
   in the script menu of the same subfolder.  It never ends the program. *)
LanzamientoFallido(l) == l # SinLanzar /\ l.hijo = None

C13_FalloDeLanzamiento ==
    [][PasoControl =>
        /\ LanzamientoFallido(lanzamiento') =>
              (pc' = "enter" /\ salida' = <<ERROR_EJECUTAR>> /\ excepcion' = None)
        /\ (pc = "enter" /\ LanzamientoFallido(lanzamiento)) =>
              (pc' \in EnMenuScripts /\ ruta_sub_carpeta' = ruta_sub_carpeta)]_vars

(* C14: one call of the launcher starts the programs in the fixed order
   (the terminals, then the interpreter in the current console; "cmd" alone
   on Windows), goes on to the next one only after the current one was not
   found, stops at the first one that is found, runs the blocking
   interpreter only when no terminal was found, and starts at most one child. *)
OrdenDe(os) == IF os = "nt" THEN <<"cmd">> ELSE terminales \o <<"python">>

C14_OrdenDeLanzamiento ==
    lanzamiento # SinLanzar =>
        LET l == lanzamiento
            orden == OrdenDe(l.entorno.os_name)
            k == Len(l.intentos)
            ultimo == l.intentos[k]
        IN  /\ 1 <= k /\ k <= Len(orden)
            /\ l.intentos = SubSeq(orden, 1, k)
            /\ \A i \in 1..(k - 1) : l.entorno.inicio[l.intentos[i]] = "FileNotFoundError"
            /\ (k < Len(orden)) => l.entorno.inicio[ultimo] # "FileNotFoundError"
            /\ l.hijo = (IF l.entorno.inicio[ultimo] = "ok" THEN ultimo ELSE None)
            /\ l.bloqueante = (l.hijo = "python")
            /\ l.bloqueante => \A t \in Terminales : l.entorno.inicio[t] = "FileNotFoundError"

(* The second terminal started the script after the first was not found. *)
C14_SegundaTerminal ==
    /\ pc = "enter"
    /\ lanzamiento.intentos = <<"xterm", "gnome-terminal">>
    /\ lanzamiento.hijo = "gnome-terminal"

(* C15: "0" pops one menu level: from a script menu (empty or not) to the
   unit menu of the same unit with the same listing of subfolders, and from
   the unit menu to the main menu; the program does not end there. *)
C15_CeroSubeUnNivel ==
    [][(PasoControl /\ opcion' = <<"0">>) =>
          /\ pc \in EnMenuScripts =>
                /\ pc' = "sub_menu"
                /\ ruta_unidad' = ruta_unidad
                /\ sub_carpetas' = sub_carpetas
                /\ salida' = <<SUBMENU>>
          /\ pc = "sub_menu" =>
                /\ pc' = "menu"
                /\ salida' = <<MENU_PRINCIPAL>>
                /\ ruta_unidad' = ruta_unidad]_vars

(* Back at the unit menu after "0" at a script menu. *)
C15_VueltaAlSubmenu ==
    /\ pc = "sub_menu"
    /\ opcion = <<"0">>
    /\ salida = <<SUBMENU>>

(* C16: for every directory D of the tree, listar_carpetas(D) holds exactly
   the immediate children of D that are directories, listar_scripts_py(D)
   exactly the immediate children that are regular files whose name ends in
   ".py" (not ".PY", ".pyc", nor a directory), each once, and in both every
   two adjacent results a, b have lower(a.name) <= lower(b.name). *)
Directorios(f) == {BASE_DIR} \cup {p \in RutasUnidad \cup RutasSub : f[p] = "dir"}

Ascendente(seq) ==
    \A i \in 1..(Len(seq) - 1) :
        str_le(lower(letras(seq[i][Len(seq[i])])), lower(letras(seq[i + 1][Len(seq[i + 1])])))

C16_Listados ==
    \A d \in Directorios(fs) :
        LET c == listar_carpetas(fs, d)
            s == listar_scripts_py(fs, d)
        IN  /\ c.error = None /\ s.error = None
            /\ Elementos(c.valor) = Subdirectorios(fs, d)
            /\ Len(c.valor) = Cardinality(Subdirectorios(fs, d))
            /\ Ascendente(c.valor)
            /\ Elementos(s.valor) = ArchivosPy(fs, d)
            /\ Len(s.valor) = Cardinality(ArchivosPy(fs, d))
            /\ Ascendente(s.valor)

(* A listing shown with "B.py" between "a.py" and "c.py", while the
   subfolder also holds the ".PY" file, the ".pyc" file and a directory
   named "m.py". *)
C16_ListadoMixto ==
    /\ pc = "scripts"
    /\ Len(scripts) >= 3
    /\ scripts[1] = EnB("a.py") /\ scripts[2] = EnB("B.py") /\ scripts[3] = EnB("c.py")
    /\ fs[EnB("j.PY")] = "file" /\ fs[EnB("k.pyc")] = "file" /\ fs[EnB("m.py")] = "dir"
    /\ sub_carpetas = <<<<Unidad1, "a">>, <<Unidad1, "B">>>>

(* C17: a script chosen at the script menu leads to the execute prompt or
   straight to the acknowledgement, never to a menu; the execute prompt
   leads to the acknowledgement, whatever the answer and the launch; the
   acknowledgement is reached only from those two; and one line read there
   is the only way back to a printed script menu. *)
C17_UnaConfirmacion ==
    [][PasoControl =>
        /\ (pc = "scripts" /\ opcion' # <<"9">> /\ EsIndice(opcion', Len(scripts)))
           => pc' \in {"ejecutar", "enter"}
        /\ pc' = "ejecutar" => (pc = "scripts" /\ salida' = <<MsgRuta("Codigo de", ruta_script')>>)
        /\ pc = "ejecutar" => pc' = "enter"
        /\ pc' = "enter" => pc \in {"scripts", "ejecutar"}
        /\ pc = "enter" => pc' \in EnMenuScripts \cup {"error"}
        /\ (pc \in {"ejecutar", "enter"} /\ pc' \in EnMenuScripts) => pc = "enter"]_vars

(* The script menu printed again after the acknowledgement of a launch. *)
C17_MenuTrasConfirmar ==
    /\ pc = "scripts"
    /\ ruta_script \in Elementos(scripts)
    /\ opcion = <<"1">>
    /\ salida = <<MENU_SCRIPTS>>

(* C18: "9" at a non-empty script menu leads to the main menu: the next
   prompt is the one of the main menu. *)
C18_NueveAlPrincipal ==
    [][(PasoControl /\ pc = "scripts" /\ opcion' = <<"9">>) =>
          (pc' = "menu" /\ salida' = <<MENU_PRINCIPAL>>)]_vars

(* One more input, which is "0", handled by the prompt the controller is
   blocked on; a finished program reads nothing. *)
ConCero(c, f) ==
    CASE c.pc = "menu" -> entrada_menu(c, f, <<"0">>)
      [] c.pc = "sub_menu" -> entrada_sub_menu(c, f, <<"0">>)
      [] c.pc = "scripts" -> entrada_scripts(c, f, <<"0">>)
      [] c.pc = "scripts_vacio" -> entrada_scripts_vacio(c, f, <<"0">>)
      [] c.pc = "ejecutar" -> entrada_ejecutar(c, Host("posix", {}, {}), <<"0">>)
      [] c.pc = "enter" -> entrada_enter(c, f)
      [] OTHER -> c

RECURSIVE ConCeros(_, _, _)
ConCeros(c, f, n) == IF n = 0 THEN c ELSE ConCeros(ConCero(c, f), f, n - 1)

(* The inputs a prompt is away from the end: one per pending prompt and one
   per menu level. *)
Pendientes(p) ==
    CASE p = "menu" -> 1
      [] p = "sub_menu" -> 2
      [] p \in EnMenuScripts -> 3
      [] p = "enter" -> 4
      [] p = "ejecutar" -> 5
      [] OTHER -> 0

(* C19: at every prompt, if every later input is "0" and the directory tree
   stays as it is, the program ends normally within the inputs pending at
   that prompt, and nothing is launched on the way. *)
C19_SoloCerosTermina ==
    pc \notin {"fin", "error"} =>
        LET r == ConCeros(AlLeer, fs, Pendientes(pc))
        IN  r.pc = "fin" /\ r.lanzamiento = SinLanzar

(* C20: an index is resolved against the listing printed for the prompt it
   answers: the subfolder entered from the unit menu is the entry of
   sub_carpetas with that ordinal, and the script read from the script menu
   is the entry of scripts with that ordinal, as they were when the menu was
   printed, whatever the directory tree holds when the line is read. *)
C20_IndiceSobreLoMostrado ==
    [][PasoControl =>
        /\ (pc = "sub_menu" /\ pc' \in EnMenuScripts) =>
              /\ EsIndice(opcion', Len(sub_carpetas))
              /\ ruta_sub_carpeta' = sub_carpetas[int(opcion').valor]
        /\ (pc = "scripts" /\ pc' \in {"ejecutar", "enter"}) =>
              /\ EsIndice(opcion', Len(scripts))
              /\ ruta_script' = scripts[int(opcion').valor]
        /\ (pc = "scripts" /\ opcion' # <<"9">> /\ EsIndice(opcion', Len(scripts))) =>
              ruta_script' = scripts[int(opcion').valor]]_vars

(* The script printed with the ordinal entered was removed before the line
   was read: it is still the one the program tried to read. *)
C20_ElegidoYaBorrado ==
    /\ pc = "enter" /\ salida = <<NO_ES_ARCHIVO>>
    /\ opcion = <<"1">> /\ scripts # <<>> /\ ruta_script = scripts[1]
    /\ fs[ruta_script] = "none" /\ is_dir(fs, ruta_sub_carpeta)

====
